---- MODULE Spec2Model ----
(***************************************************************************)
(* Model of the YoLink Prometheus exporter: the collector                  *)
(* (src/exporter.go) with its cache and mutex, and the API client          *)
(* (src/yolink_client.go) with its OAuth session.  Time is counted in      *)
(* seconds.  Every scrape is a process that runs Collect step by step, one *)
(* step per statement group between two blocking points (lock, HTTP call). *)
(***************************************************************************)
EXTENDS Integers, Sequences, FiniteSets, TLC

\* ------------------------------------------------------------------ bounds
MaxTime == 3            \* the clock runs from 0 to MaxTime
Interval == 2           \* the configured scrape.interval, in seconds
MaxCycles == 2          \* refresh cycles that reach the cache, per run
MaxLifetimeExtra == 1   \* declared token lifetimes go up to SafetyBuffer + this

SafetyBuffer == 60      \* seconds subtracted from the declared lifetime

Scrapers == {"s1", "s2"}   \* concurrent /metrics requests
NoOne == "nobody"
NoTime == 0 - 1

\* time.Time{}: the zero instant, further back than any interval
ZeroTime == 0 - (Interval + MaxTime + 1)

\* ----------------------------------------------------------- upstream data
Sensor(id, name) ==
    [DeviceID |-> id, Name |-> name, Token |-> "tok-" \o id,
     Type |-> "THSensor", ModelName |-> "YS8007-UC"]

DevA == Sensor("a", "Attic")
DevB == Sensor("b", "Barn")
DevHub == [DeviceID |-> "h", Name |-> "Hub", Token |-> "tok-h",
           Type |-> "Hub", ModelName |-> "YS1603-UC"]
DevOld == [DeviceID |-> "o", Name |-> "Old", Token |-> "tok-o",
           Type |-> "THSensor", ModelName |-> "YS8003-UC"]

\* the device lists the upstream may answer with
UpstreamLists == { <<DevA, DevHub, DevB>>, <<DevB>>, <<DevOld>> }

GoodStamp == "2024-01-01T00:00:00Z"
BadStamp == "yesterday"

\* the data part of a DeviceStateResponse
Payload(online, stamp) ==
    [Online |-> online, Battery |-> 3, Humidity |-> 40, Temperature |-> 21,
     ReportAt |-> stamp]

StatePayloads == { Payload(TRUE, GoodStamp), Payload(FALSE, GoodStamp),
                   Payload(TRUE, BadStamp), Payload(FALSE, BadStamp) }

Lifetimes == (SafetyBuffer - 1) .. (SafetyBuffer + MaxLifetimeExtra)
RefreshTokens == {"", "rt"}

VARIABLES
    now,            \* the clock
    mutex,          \* e.mutex: the scraper holding it, or NoOne
    lastScrape,     \* e.lastScrape
    devices,        \* e.devices
    deviceStates,   \* e.deviceStates: a function from device ids to payloads
    accessToken,    \* c.accessToken
    refreshToken,   \* c.refreshToken
    tokenExpiry,    \* c.tokenExpiry
    pc,             \* where each scraper is in Collect
    loc,            \* refreshData's locals: the fetched list and the loop index
    out,            \* the samples each scraper has sent on ch in this call
    obs,            \* history of the call in progress, per scraper
    cycle,          \* refresh cycles that have reached the cache so far
    devCycle,       \* the cycle that wrote e.devices
    stateCycle,     \* the cycle that wrote e.deviceStates
    lastOkCheck,    \* instant of the staleness check of the last successful refresh
    lastTryCheck,   \* instant of the staleness check of the last refresh attempt
    prevFailed,     \* the most recently returned Collect had a failed refresh
    lastAttempt,    \* how the most recent refreshData ended: "ok", "failed", "none"
    failing         \* the latest exchange was a refresh grant, and it failed

cache == <<lastScrape, devices, deviceStates>>
session == <<accessToken, refreshToken, tokenExpiry>>
refreshHistory == <<cycle, devCycle, stateCycle, lastOkCheck, lastTryCheck,
                    prevFailed, lastAttempt>>
history == <<refreshHistory, failing>>
vars == <<now, mutex, lastScrape, devices, deviceStates, accessToken,
          refreshToken, tokenExpiry, pc, loc, out, obs, cycle, devCycle,
          stateCycle, lastOkCheck, lastTryCheck, prevFailed, lastAttempt, failing>>

NoLoc == [devs |-> <<>>, idx |-> 0]
EmptyMap == [d \in {} |-> 0]

\* t, age, stale: the instant, the cache age and the outcome of the staleness
\* check; prevTry, prevOk: lastTryCheck and lastOkCheck as they were then;
\* pre: the cache when the lock was acquired; fetched: the states this call's
\* refresh fetched; result: "fresh", "refreshed" or "failed"; ens: what the
\* ensureValidToken of the latest step found and did; made: the HTTP requests
\* of the latest client step; calls: the client calls of this refresh, in
\* order; resp: the devices of the list response, unfiltered; authErr: an
\* ensureValidToken of this refresh returned an error
NoEns == [checked |-> FALSE, had |-> FALSE, hadRefresh |-> FALSE, late |-> 0,
          exchanged |-> FALSE]
NoObs == [t |-> NoTime, age |-> 0, stale |-> FALSE, prevTry |-> NoTime,
          prevOk |-> NoTime, pre |-> <<>>, fetched |-> EmptyMap,
          result |-> "none", ens |-> NoEns, made |-> <<>>, calls |-> <<>>,
          resp |-> <<>>, authErr |-> FALSE]

\* a client call or an HTTP request: k is "GetDevices" or "GetDeviceState"
\* (a call), "token", "list" or "state" (a request)
Entry(k, dev, grant, ok) == [k |-> k, dev |-> dev, grant |-> grant, ok |-> ok]

\* ------------------------------------------------------------ pure helpers
Ids(devs) == { devs[i].DeviceID : i \in 1..Len(devs) }

\* time.Since(t)
Since(t) == now - t

\* mutant: the cache is stale from age = interval on
IsStaleAtInterval(last) == Since(last) >= Interval

\* exporter.go:87, the staleness test
IsStale(last) == Since(last) > Interval

\* mutant: the token counts as expired at the expiry instant itself
NeedsTokenAtExpiry == accessToken = "" \/ now >= tokenExpiry

\* yolink_client.go:84, the test of ensureValidToken
NeedsToken == accessToken = "" \/ now > tokenExpiry

\* yolink_client.go:129 and :170
ExpiryFor(expiresIn) == now + (expiresIn - SafetyBuffer)

\* mutant: the filter looks at the type alone
RECURSIVE FilterSensorsByType(_)
FilterSensorsByType(ds) ==
    IF ds = <<>> THEN <<>>
    ELSE LET rest == FilterSensorsByType(Tail(ds))
         IN IF Head(ds).Type = "THSensor" THEN <<Head(ds)>> \o rest ELSE rest

\* yolink_client.go:224-229, the THSensor filter
RECURSIVE FilterSensors(_)
FilterSensors(ds) ==
    IF ds = <<>> THEN <<>>
    ELSE LET rest == FilterSensors(Tail(ds))
         IN IF Head(ds).Type = "THSensor" /\ Head(ds).ModelName = "YS8007-UC"
            THEN <<Head(ds)>> \o rest
            ELSE rest

\* time.Parse(time.RFC3339, s) on the stamps of the model, then Unix()
ParseReportAt(s) ==
    IF s = GoodStamp THEN [ok |-> TRUE, unix |-> 1704067200]
    ELSE [ok |-> FALSE, unix |-> 0]

Sample(name, labels, value) == [name |-> name, labels |-> labels, value |-> value]
UpSample(v) == Sample("yolink_up", <<>>, v)

\* mutant: the readings are sent whatever the online flag says
DeviceSamplesUngated(device, state) ==
    LET labels == <<device.DeviceID, device.Name, device.ModelName>>
        parsed == ParseReportAt(state.ReportAt)
    IN  <<Sample("yolink_device_online", labels, IF state.Online THEN 1 ELSE 0)>>
        \o (IF parsed.ok
            THEN <<Sample("yolink_last_updated_timestamp", labels, parsed.unix)>>
            ELSE <<>>)
        \o <<Sample("yolink_temperature_celsius", labels, state.Temperature),
              Sample("yolink_humidity_percent", labels, state.Humidity),
              Sample("yolink_battery_level", labels, state.Battery)>>

\* mutant: a stamp that does not parse ends the samples of the device
DeviceSamplesStopAtBadStamp(device, state) ==
    LET labels == <<device.DeviceID, device.Name, device.ModelName>>
        parsed == ParseReportAt(state.ReportAt)
    IN  <<Sample("yolink_device_online", labels, IF state.Online THEN 1 ELSE 0)>>
        \o (IF parsed.ok
            THEN <<Sample("yolink_last_updated_timestamp", labels, parsed.unix)>>
                 \o (IF state.Online
                     THEN <<Sample("yolink_temperature_celsius", labels, state.Temperature),
                            Sample("yolink_humidity_percent", labels, state.Humidity),
                            Sample("yolink_battery_level", labels, state.Battery)>>
                     ELSE <<>>)
            ELSE <<>>)

\* exporter.go:106-133, the samples of one device with a cached state
DeviceSamples(device, state) ==
    LET labels == <<device.DeviceID, device.Name, device.ModelName>>
        parsed == ParseReportAt(state.ReportAt)
    IN  <<Sample("yolink_device_online", labels, IF state.Online THEN 1 ELSE 0)>>
        \o (IF parsed.ok
            THEN <<Sample("yolink_last_updated_timestamp", labels, parsed.unix)>>
            ELSE <<>>)
        \o (IF state.Online
            THEN <<Sample("yolink_temperature_celsius", labels, state.Temperature),
                   Sample("yolink_humidity_percent", labels, state.Humidity),
                   Sample("yolink_battery_level", labels, state.Battery)>>
            ELSE <<>>)

\* exporter.go:100-134, the loop over e.devices
RECURSIVE EmitDevices(_, _)
EmitDevices(devs, states) ==
    IF devs = <<>> THEN <<>>
    ELSE (IF Head(devs).DeviceID \in DOMAIN states
          THEN DeviceSamples(Head(devs), states[Head(devs).DeviceID])
          ELSE <<>>)
         \o EmitDevices(Tail(devs), states)

\* m[k] = v, as a Go map assignment
MapPut(m, k, v) == [x \in DOMAIN m \cup {k} |-> IF x = k THEN v ELSE m[x]]

\* ------------------------------------------------------------------- init
Init ==
    /\ now = 0
    /\ mutex = NoOne
    /\ lastScrape = ZeroTime
    /\ devices = <<>>
    /\ deviceStates = EmptyMap
    /\ accessToken = ""
    /\ refreshToken = ""
    /\ tokenExpiry = ZeroTime
    /\ pc = [p \in Scrapers |-> "idle"]
    /\ loc = [p \in Scrapers |-> NoLoc]
    /\ out = [p \in Scrapers |-> <<>>]
    /\ obs = [p \in Scrapers |-> NoObs]
    /\ cycle = 0
    /\ devCycle = 0
    /\ stateCycle = 0
    /\ lastOkCheck = NoTime
    /\ lastTryCheck = NoTime
    /\ prevFailed = FALSE
    /\ lastAttempt = "none"
    /\ failing = FALSE

\* the clock advances
Tick ==
    /\ now < MaxTime
    /\ now' = now + 1
    /\ UNCHANGED <<mutex, cache, session, pc, loc, out, obs, history>>

\* -------------------------------------------------------- the API client
\* ensureValidToken (yolink_client.go:83-91) with the exchange it may make
\* (getInitialToken :93-132, refreshAccessToken :134-173).  ok: the exchange
\* succeeded and the response declared expiresIn and carried refresh token rt.
EnsureValidToken(ok, expiresIn, rt) ==
    IF NeedsToken
    THEN IF ok
         THEN /\ accessToken' = "at"
              /\ refreshToken' = rt
              /\ tokenExpiry' = ExpiryFor(expiresIn)
         ELSE UNCHANGED session
    ELSE UNCHANGED session

\* the error ensureValidToken returns
TokenError(ok) == NeedsToken /\ ~ok

\* whether, after a session check, the latest exchange is a failed refresh grant
FailingAfter(ok) == IF NeedsToken THEN ~ok /\ refreshToken # "" ELSE failing

\* mutant: the refresh token is never used
GrantAlwaysCredentials(rt) == "client_credentials"

\* yolink_client.go:85-88: refreshAccessToken if a refresh token is held,
\* getInitialToken otherwise
GrantFor(rt) == IF rt # "" THEN "refresh_token" ELSE "client_credentials"

\* mutant: a failed exchange is followed by a client-credentials exchange
TokenCallsRetry(dev, ok) ==
    IF NeedsToken
    THEN IF ok
         THEN <<Entry("token", dev, GrantFor(refreshToken), ok)>>
         ELSE <<Entry("token", dev, GrantFor(refreshToken), ok),
                Entry("token", dev, "client_credentials", ok)>>
    ELSE <<>>

\* the token requests one ensureValidToken makes, on behalf of the call for
\* device dev ("" for the device list)
TokenCalls(dev, ok) ==
    IF NeedsToken THEN <<Entry("token", dev, GrantFor(refreshToken), ok)>> ELSE <<>>

\* what ensureValidToken finds: a token held or not, a refresh token held or
\* not, now - tokenExpiry, and whether it makes an exchange
EnsureRecord(ok) ==
    [checked |-> TRUE, had |-> accessToken # "", hadRefresh |-> refreshToken # "",
     late |-> now - tokenExpiry, exchanged |-> TokenCalls("", ok) # <<>>]

\* --------------------------------------------------------------- Collect
\* a scrape request arrives and calls Collect
Call(p) ==
    /\ pc[p] = "idle"
    /\ cycle < MaxCycles
    /\ pc' = [pc EXCEPT ![p] = "lock"]
    /\ UNCHANGED <<now, mutex, cache, session, loc, out, obs, history>>

\* mutant: the lock excludes nobody
LockAlwaysGranted(p) == TRUE

\* e.mutex.Lock() is granted
LockGranted(p) == mutex = NoOne

\* exporter.go:83
Lock(p) ==
    /\ pc[p] = "lock"
    /\ LockGranted(p)
    /\ mutex' = p
    /\ pc' = [pc EXCEPT ![p] = "check"]
    /\ obs' = [obs EXCEPT ![p] = [NoObs EXCEPT !.pre = cache]]
    /\ UNCHANGED <<now, cache, session, loc, out, history>>

\* exporter.go:87
Check(p) ==
    /\ pc[p] = "check"
    /\ pc' = [pc EXCEPT ![p] = IF IsStale(lastScrape) THEN "getDevices" ELSE "emit"]
    /\ obs' = [obs EXCEPT ![p].t = now, ![p].age = Since(lastScrape),
                          ![p].stale = IsStale(lastScrape),
                          ![p].prevTry = lastTryCheck,
                          ![p].prevOk = lastOkCheck,
                          ![p].result = IF IsStale(lastScrape) THEN "none" ELSE "fresh"]
    /\ lastTryCheck' = IF IsStale(lastScrape) THEN now ELSE lastTryCheck
    /\ UNCHANGED <<now, mutex, cache, session, loc, out, cycle, devCycle,
                   stateCycle, lastOkCheck, prevFailed, lastAttempt, failing>>

\* refreshData, exporter.go:139: GetDevices starts with ensureValidToken
\* (yolink_client.go:176-178)
ListToken(p) ==
    /\ pc[p] = "getDevices"
    /\ \E ok \in BOOLEAN, expiresIn \in Lifetimes, rt \in RefreshTokens :
         /\ EnsureValidToken(ok, expiresIn, rt)
         /\ pc' = [pc EXCEPT ![p] = IF TokenError(ok) THEN "refreshFailed" ELSE "listRequest"]
         /\ obs' = [obs EXCEPT ![p].ens = EnsureRecord(ok),
                               ![p].calls = Append(@, Entry("GetDevices", "", "", TRUE)),
                               ![p].made = TokenCalls("", ok),
                               ![p].authErr = TokenError(ok)]
         /\ failing' = FailingAfter(ok)
    /\ UNCHANGED <<now, mutex, cache, loc, out, refreshHistory>>

\* mutant: a failed list call empties the cached device list
ListRequestFailsAndClears(p) ==
    /\ pc[p] = "listRequest"
    /\ devices' = <<>>
    /\ pc' = [pc EXCEPT ![p] = "refreshFailed"]
    /\ obs' = [obs EXCEPT ![p].made = <<Entry("list", "", "", FALSE)>>,
                          ![p].ens = NoEns]
    /\ UNCHANGED <<now, mutex, lastScrape, deviceStates, session, loc, out,
                   history>>

\* GetDevices, yolink_client.go:180-231: the request fails (transport, status,
\* body, code), and refreshData returns the error (exporter.go:140-142)
ListRequestFails(p) ==
    /\ pc[p] = "listRequest"
    /\ pc' = [pc EXCEPT ![p] = "refreshFailed"]
    /\ obs' = [obs EXCEPT ![p].made = <<Entry("list", "", "", FALSE)>>,
                          ![p].ens = NoEns]
    /\ UNCHANGED <<now, mutex, cache, session, loc, out, history>>

\* GetDevices succeeds with the filtered list, and exporter.go:144 stores it
ListRequestOk(p) ==
    /\ pc[p] = "listRequest"
    /\ \E resp \in UpstreamLists :
         /\ loc' = [loc EXCEPT ![p] = [devs |-> FilterSensors(resp), idx |-> 1]]
         /\ devices' = FilterSensors(resp)
         /\ obs' = [obs EXCEPT ![p].made = <<Entry("list", "", "", TRUE)>>,
                               ![p].ens = NoEns, ![p].resp = resp]
    /\ cycle' = cycle + 1
    /\ devCycle' = cycle + 1
    /\ pc' = [pc EXCEPT ![p] = "clearStates"]
    /\ UNCHANGED <<now, mutex, lastScrape, deviceStates, session, out,
                   stateCycle, lastOkCheck, lastTryCheck, prevFailed, lastAttempt, failing>>

\* mutant: the state mapping is kept and merged into
ClearStatesKeeps(p) ==
    /\ pc[p] = "clearStates"
    /\ stateCycle' = devCycle
    /\ pc' = [pc EXCEPT ![p] = "stateLoop"]
    /\ UNCHANGED <<now, mutex, cache, session, loc, out, obs,
                   cycle, devCycle, lastOkCheck, lastTryCheck, prevFailed,
                   lastAttempt, failing>>

\* exporter.go:145
ClearStates(p) ==
    /\ pc[p] = "clearStates"
    /\ deviceStates' = EmptyMap
    /\ stateCycle' = devCycle
    /\ pc' = [pc EXCEPT ![p] = "stateLoop"]
    /\ UNCHANGED <<now, mutex, lastScrape, devices, session, loc, out, obs,
                   cycle, devCycle, lastOkCheck, lastTryCheck, prevFailed,
                   lastAttempt, failing>>

\* exporter.go:148 is past the last device: refreshData returns nil
LoopDone(p) ==
    /\ pc[p] = "stateLoop"
    /\ loc[p].idx > Len(loc[p].devs)
    /\ pc' = [pc EXCEPT ![p] = "refreshed"]
    /\ lastAttempt' = "ok"
    /\ UNCHANGED failing
    /\ obs' = [obs EXCEPT ![p].made = <<>>, ![p].ens = NoEns]
    /\ UNCHANGED <<now, mutex, cache, session, loc, out, cycle, devCycle,
                   stateCycle, lastOkCheck, lastTryCheck, prevFailed>>

\* exporter.go:149: GetDeviceState starts with ensureValidToken
\* (yolink_client.go:235-237); its error is logged and the loop continues
\* (exporter.go:150-153)
StateToken(p) ==
    /\ pc[p] = "stateLoop"
    /\ loc[p].idx <= Len(loc[p].devs)
    /\ \E ok \in BOOLEAN, expiresIn \in Lifetimes, rt \in RefreshTokens :
         /\ EnsureValidToken(ok, expiresIn, rt)
         /\ IF TokenError(ok)
            THEN /\ loc' = [loc EXCEPT ![p].idx = @ + 1]
                 /\ pc' = pc
            ELSE /\ loc' = loc
                 /\ pc' = [pc EXCEPT ![p] = "stateRequest"]
         /\ LET id == loc[p].devs[loc[p].idx].DeviceID
            IN  obs' = [obs EXCEPT ![p].ens = EnsureRecord(ok),
                                   ![p].calls = Append(@, Entry("GetDeviceState", id, "", TRUE)),
                                   ![p].made = TokenCalls(id, ok),
                                   ![p].authErr = @ \/ TokenError(ok)]
         /\ failing' = FailingAfter(ok)
    /\ UNCHANGED <<now, mutex, cache, out, refreshHistory>>

\* mutant: a failed fetch ends the loop
StateRequestFailsBreaks(p) ==
    /\ pc[p] = "stateRequest"
    /\ loc' = [loc EXCEPT ![p].idx = Len(loc[p].devs) + 1]
    /\ pc' = [pc EXCEPT ![p] = "stateLoop"]
    /\ obs' = [obs EXCEPT ![p].made =
                  <<Entry("state", loc[p].devs[loc[p].idx].DeviceID, "", FALSE)>>,
                          ![p].ens = NoEns]
    /\ UNCHANGED <<now, mutex, cache, session, out, history>>

\* GetDeviceState, yolink_client.go:239-282, fails: logged, next device
StateRequestFails(p) ==
    /\ pc[p] = "stateRequest"
    /\ loc' = [loc EXCEPT ![p].idx = @ + 1]
    /\ pc' = [pc EXCEPT ![p] = "stateLoop"]
    /\ obs' = [obs EXCEPT ![p].made =
                  <<Entry("state", loc[p].devs[loc[p].idx].DeviceID, "", FALSE)>>,
                          ![p].ens = NoEns]
    /\ UNCHANGED <<now, mutex, cache, session, out, history>>

\* GetDeviceState succeeds and exporter.go:154 stores the state
StateRequestOk(p) ==
    /\ pc[p] = "stateRequest"
    /\ \E st \in StatePayloads :
         LET id == loc[p].devs[loc[p].idx].DeviceID
         IN  /\ deviceStates' = MapPut(deviceStates, id, st)
             /\ obs' = [obs EXCEPT ![p].fetched = MapPut(@, id, st),
                                   ![p].made = <<Entry("state", id, "", TRUE)>>,
                                   ![p].ens = NoEns]
    /\ loc' = [loc EXCEPT ![p].idx = @ + 1]
    /\ pc' = [pc EXCEPT ![p] = "stateLoop"]
    /\ UNCHANGED <<now, mutex, lastScrape, devices, session, out, history>>

\* mutant: the early return leaves the mutex locked
RefreshFailedKeepsLock(p) ==
    /\ pc[p] = "refreshFailed"
    /\ pc' = [pc EXCEPT ![p] = "idle"]
    /\ out' = [out EXCEPT ![p] = <<>>]
    /\ loc' = [loc EXCEPT ![p] = NoLoc]
    /\ obs' = [obs EXCEPT ![p] = NoObs]
    /\ lastAttempt' = "failed"
    /\ UNCHANGED failing
    /\ prevFailed' = TRUE
    /\ UNCHANGED <<now, mutex, cache, session, cycle, devCycle, stateCycle,
                   lastOkCheck, lastTryCheck>>

\* mutant: a failed refresh restarts the staleness clock
RefreshFailedResetsClock(p) ==
    /\ pc[p] = "refreshFailed"
    /\ lastScrape' = now
    /\ out' = [out EXCEPT ![p] = Append(@, UpSample(0))]
    /\ obs' = [obs EXCEPT ![p].result = "failed", ![p].made = <<>>, ![p].ens = NoEns]
    /\ pc' = [pc EXCEPT ![p] = "unlock"]
    /\ lastAttempt' = "failed"
    /\ UNCHANGED failing
    /\ UNCHANGED <<now, mutex, devices, deviceStates, session, loc, cycle,
                   devCycle, stateCycle, lastOkCheck, lastTryCheck, prevFailed>>

\* mutant: after up 0 the cached devices are sent all the same
RefreshFailedServesCache(p) ==
    /\ pc[p] = "refreshFailed"
    /\ out' = [out EXCEPT ![p] = Append(@, UpSample(0)) \o EmitDevices(devices, deviceStates)]
    /\ obs' = [obs EXCEPT ![p].result = "failed", ![p].made = <<>>, ![p].ens = NoEns]
    /\ pc' = [pc EXCEPT ![p] = "unlock"]
    /\ lastAttempt' = "failed"
    /\ UNCHANGED failing
    /\ UNCHANGED <<now, mutex, cache, session, loc, cycle, devCycle, stateCycle,
                   lastOkCheck, lastTryCheck, prevFailed>>

\* mutant: the return after up 0 is missing
RefreshFailedFallsThrough(p) ==
    /\ pc[p] = "refreshFailed"
    /\ out' = [out EXCEPT ![p] = Append(Append(@, UpSample(0)), UpSample(1))
                                   \o EmitDevices(devices, deviceStates)]
    /\ obs' = [obs EXCEPT ![p].result = "failed", ![p].made = <<>>, ![p].ens = NoEns]
    /\ pc' = [pc EXCEPT ![p] = "unlock"]
    /\ lastAttempt' = "failed"
    /\ UNCHANGED failing
    /\ UNCHANGED <<now, mutex, cache, session, loc, cycle, devCycle, stateCycle,
                   lastOkCheck, lastTryCheck, prevFailed>>

\* exporter.go:88-91: the refresh failed; up 0 is sent and Collect returns
RefreshFailed(p) ==
    /\ pc[p] = "refreshFailed"
    /\ out' = [out EXCEPT ![p] = Append(@, UpSample(0))]
    /\ obs' = [obs EXCEPT ![p].result = "failed", ![p].made = <<>>, ![p].ens = NoEns]
    /\ pc' = [pc EXCEPT ![p] = "unlock"]
    /\ lastAttempt' = "failed"
    /\ UNCHANGED failing
    /\ UNCHANGED <<now, mutex, cache, session, loc, cycle, devCycle, stateCycle,
                   lastOkCheck, lastTryCheck, prevFailed>>

\* mutant: the lock is given up once the refresh is done
SetLastScrapeAndRelease(p) ==
    /\ pc[p] = "refreshed"
    /\ lastScrape' = now
    /\ lastOkCheck' = obs[p].t
    /\ mutex' = NoOne
    /\ obs' = [obs EXCEPT ![p].result = "refreshed"]
    /\ pc' = [pc EXCEPT ![p] = "emit"]
    /\ UNCHANGED <<now, devices, deviceStates, session, loc, out, cycle,
                   devCycle, stateCycle, lastTryCheck, prevFailed, lastAttempt, failing>>

\* mutant: the refresh instant is not stored
SetLastScrapeForgets(p) ==
    /\ pc[p] = "refreshed"
    /\ lastOkCheck' = obs[p].t
    /\ obs' = [obs EXCEPT ![p].result = "refreshed"]
    /\ pc' = [pc EXCEPT ![p] = "emit"]
    /\ UNCHANGED <<now, mutex, cache, session, loc, out, cycle,
                   devCycle, stateCycle, lastTryCheck, prevFailed, lastAttempt, failing>>

\* exporter.go:93
SetLastScrape(p) ==
    /\ pc[p] = "refreshed"
    /\ lastScrape' = now
    /\ lastOkCheck' = obs[p].t
    /\ obs' = [obs EXCEPT ![p].result = "refreshed"]
    /\ pc' = [pc EXCEPT ![p] = "emit"]
    /\ UNCHANGED <<now, mutex, devices, deviceStates, session, loc, out, cycle,
                   devCycle, stateCycle, lastTryCheck, prevFailed, lastAttempt, failing>>

\* mutant: up 1 is sent after the device samples
EmitUpLast(p) ==
    /\ pc[p] = "emit"
    /\ out' = [out EXCEPT ![p] = Append(@ \o EmitDevices(devices, deviceStates), UpSample(1))]
    /\ pc' = [pc EXCEPT ![p] = "unlock"]
    /\ UNCHANGED <<now, mutex, cache, session, loc, obs, history>>

\* exporter.go:97-134: up 1, then the samples of the cached devices
Emit(p) ==
    /\ pc[p] = "emit"
    /\ out' = [out EXCEPT ![p] = Append(@, UpSample(1)) \o EmitDevices(devices, deviceStates)]
    /\ pc' = [pc EXCEPT ![p] = "unlock"]
    /\ UNCHANGED <<now, mutex, cache, session, loc, obs, history>>

\* exporter.go:84, the deferred e.mutex.Unlock(): Collect returns
Unlock(p) ==
    /\ pc[p] = "unlock"
    /\ mutex' = NoOne
    /\ prevFailed' = (obs[p].result = "failed")
    /\ pc' = [pc EXCEPT ![p] = "idle"]
    /\ loc' = [loc EXCEPT ![p] = NoLoc]
    /\ out' = [out EXCEPT ![p] = <<>>]
    /\ obs' = [obs EXCEPT ![p] = NoObs]
    /\ UNCHANGED <<now, cache, session, cycle, devCycle, stateCycle,
                   lastOkCheck, lastTryCheck, lastAttempt, failing>>

Next ==
    \/ Tick
    \/ \E p \in Scrapers :
         \/ Call(p) \/ Lock(p) \/ Check(p)
         \/ ListToken(p) \/ ListRequestFails(p) \/ ListRequestOk(p)
         \/ ClearStates(p) \/ LoopDone(p) \/ StateToken(p)
         \/ StateRequestFails(p) \/ StateRequestOk(p)
         \/ RefreshFailed(p) \/ SetLastScrape(p) \/ Emit(p) \/ Unlock(p)

Spec == Init /\ [][Next]_vars

\* the steps of Collect after e.mutex.Lock() has returned, exporter.go:84-135
\* with refreshData and the deferred Unlock
Body(p) ==
    \/ Check(p)
    \/ ListToken(p) \/ ListRequestFails(p) \/ ListRequestOk(p)
    \/ ClearStates(p) \/ LoopDone(p) \/ StateToken(p)
    \/ StateRequestFails(p) \/ StateRequestOk(p)
    \/ RefreshFailed(p) \/ SetLastScrape(p) \/ Emit(p) \/ Unlock(p)

\* A goroutine that holds the mutex keeps running and every request of the
\* client returns (the http.Client has a 30 s timeout, yolink_client.go:79):
\* weak fairness of the body.  sync.Mutex hands the lock to a waiter that
\* finds it free again and again: strong fairness of Lock.  Nothing obliges
\* Prometheus to scrape or the clock to advance.
FairSpec ==
    /\ Spec
    /\ \A p \in Scrapers : WF_vars(Body(p)) /\ SF_vars(Lock(p))

\* ----------------------------------------------------------------- claims
\* a scraper between e.mutex.Lock() and the deferred Unlock
InBody(p) == pc[p] \notin {"idle", "lock"}
Other(p) == Scrapers \ {p}
Finished(p) == pc[p] = "unlock"

SensorNames == {"yolink_temperature_celsius", "yolink_humidity_percent",
                "yolink_battery_level"}
Positions(p) == 1..Len(out[p])
UpPositions(p) == { i \in Positions(p) : out[p][i].name = "yolink_up" }
DevicePositions(p) == Positions(p) \ UpPositions(p)
\* the positions of the samples of device id with a name in names
SamplesOf(p, id, names) ==
    { i \in DevicePositions(p) : out[p][i].labels[1] = id /\ out[p][i].name \in names }
EmittedIds(p) == { out[p][i].labels[1] : i \in DevicePositions(p) }

\* C1: at most one Collect is between Lock and Unlock; the staleness check,
\* the refresh and the emission of a call all happen while that call holds
\* the mutex; so no two scrapers are at the same time past a check that
\* found the cache stale, the timestamp a refreshing scraper decided on is
\* still the cached one, and a scraper that comes after a successful refresh
\* finds the cache stale only when more than the interval has passed since
\* the check of that refresh.
C1_OneCollectInCriticalSection ==
    /\ Cardinality({ p \in Scrapers : InBody(p) }) <= 1
    /\ \A p \in Scrapers : InBody(p) => mutex = p
    /\ \A p \in Scrapers : obs[p].stale =>
         /\ \A q \in Other(p) : ~obs[q].stale /\ obs[q].t = NoTime
         /\ pc[p] \notin {"emit", "unlock"} => lastScrape = obs[p].pre[1]
         /\ obs[p].prevOk # NoTime => obs[p].t - obs[p].prevOk > Interval

\* one scraper waits for the lock while the other, having found the cache
\* stale, is in the state loop of its refresh
C1_Witness ==
    \E p \in Scrapers : \E q \in Other(p) :
        pc[p] = "stateRequest" /\ obs[p].stale /\ pc[q] = "lock"

\* C2: when a Collect is about to read the cache for its device samples, and
\* until it returns, the device list and the state mapping were written by
\* the same refresh cycle and every key of the mapping is the id of a listed
\* device.
C2_CacheOfOneCycle ==
    \A p \in Scrapers : pc[p] \in {"emit", "unlock"} =>
        /\ devCycle = stateCycle
        /\ DOMAIN deviceStates \subseteq Ids(devices)

\* a Collect emits from the cache of the second refresh cycle, which lists
\* fewer devices than the first did
C2_Witness ==
    \E p \in Scrapers :
        /\ pc[p] = "emit"
        /\ devCycle = 2
        /\ DOMAIN deviceStates # {}
        /\ Len(obs[p].pre[2]) > Len(devices)

\* C3: a Collect whose refresh failed returns with the last-refresh
\* timestamp, the device list and the state mapping as they were when it
\* acquired the lock; the timestamp changes only at exporter.go:93, after
\* refreshData returned nil.
C3_FailedRefreshKeepsCache ==
    [][ /\ \A p \in Scrapers :
             (pc[p] = "unlock" /\ pc'[p] = "idle" /\ obs[p].result = "failed")
                 => cache' = obs[p].pre
        /\ lastScrape' # lastScrape =>
             \E p \in Scrapers : pc[p] = "refreshed" /\ pc'[p] = "emit" ]_vars

\* a refresh has failed while a cache of an earlier cycle is held
C3_Witness ==
    \E p \in Scrapers :
        /\ Finished(p) /\ obs[p].result = "failed"
        /\ lastScrape # ZeroTime /\ devices # <<>> /\ DOMAIN deviceStates # {}

\* C4: the Collect that follows one whose refresh failed finds the cache
\* stale and attempts the refresh, at whatever instant it runs.
C4_RetryAfterFailure ==
    \A p \in Scrapers : (prevFailed /\ obs[p].t # NoTime) => obs[p].stale

\* after a failed refresh the next Collect, at a later instant, is refreshing
C4_Witness ==
    \E p \in Scrapers :
        /\ prevFailed /\ pc[p] = "listRequest"
        /\ obs[p].prevTry # NoTime /\ obs[p].t > obs[p].prevTry

\* C5: a Collect whose refresh failed sends exactly one sample, up with
\* value 0, and no device sample.
C5_FailedRefreshEmitsOnlyUpZero ==
    \A p \in Scrapers :
        (Finished(p) /\ obs[p].result = "failed") => out[p] = <<UpSample(0)>>

\* the refresh failed at the device list although states are cached
C5_Witness ==
    \E p \in Scrapers :
        /\ Finished(p) /\ obs[p].result = "failed"
        /\ out[p] = <<UpSample(0)>>
        /\ \E id \in DOMAIN deviceStates : deviceStates[id].Online

\* C6: every Collect sends exactly one up sample, and sends it before any
\* device sample.
C6_OneUpSampleFirst ==
    \A p \in Scrapers :
        /\ Finished(p) => Cardinality(UpPositions(p)) = 1
        /\ out[p] # <<>> => UpPositions(p) = {1}

\* a batch with device samples is complete, right after a Collect that sent
\* up 0 alone
C6_Witness ==
    \E p \in Scrapers :
        /\ Finished(p) /\ obs[p].result = "refreshed" /\ Len(out[p]) > 1
        /\ prevFailed

\* C7 as stated: a Collect whose staleness check comes less than the interval
\* after the check of a Collect that started a refresh starts no refresh.
C7_AtMostOneRefreshAttempt ==
    \A p \in Scrapers :
        (/\ obs[p].t # NoTime /\ obs[p].prevTry # NoTime
         /\ obs[p].t - obs[p].prevTry < Interval) => ~obs[p].stale

\* C7 amended: a Collect whose staleness check comes less than the interval
\* after the check of a Collect whose refresh succeeded starts no refresh.
C7_NoRefreshAfterSuccess ==
    \A p \in Scrapers :
        (/\ obs[p].t # NoTime /\ obs[p].prevOk # NoTime
         /\ obs[p].t - obs[p].prevOk < Interval) => ~obs[p].stale

\* a Collect served from the cache, less than the interval after a refresh
C7_Witness ==
    \E p \in Scrapers :
        /\ Finished(p) /\ obs[p].result = "fresh"
        /\ obs[p].prevOk # NoTime /\ obs[p].t > obs[p].prevOk
        /\ obs[p].t - obs[p].prevOk < Interval

\* C8 as stated: the refresh is attempted exactly when the age of the cache
\* at the check is at least the interval.
C8_StaleFromInterval ==
    \A p \in Scrapers :
        obs[p].t # NoTime => (obs[p].stale <=> obs[p].age >= Interval)

\* C8 amended: the refresh is attempted exactly when the age of the cache at
\* the check is greater than the interval; at age = interval it is not.
C8_StaleAfterInterval ==
    \A p \in Scrapers :
        /\ obs[p].t # NoTime => (obs[p].stale <=> obs[p].age > Interval)
        /\ pc[p] \in {"getDevices", "listRequest", "clearStates", "stateLoop",
                      "stateRequest", "refreshed", "refreshFailed"}
             => obs[p].age > Interval
        /\ obs[p].result = "fresh" => obs[p].age <= Interval

\* a Collect at age exactly the interval is served from the cache
C8_Witness ==
    \E p \in Scrapers :
        pc[p] = "emit" /\ obs[p].result = "fresh" /\ obs[p].age = Interval

\* C9: in a batch, a cached device that is offline has its online sample
\* with value 0 and no temperature, humidity or battery sample.
C9_OfflineHasNoReadings ==
    \A p \in Scrapers : (Finished(p) /\ obs[p].result # "failed") =>
        \A i \in 1..Len(devices) :
            LET id == devices[i].DeviceID
            IN  (id \in DOMAIN deviceStates /\ ~deviceStates[id].Online) =>
                  /\ SamplesOf(p, id, SensorNames) = {}
                  /\ \E k \in SamplesOf(p, id, {"yolink_device_online"}) :
                        out[p][k].value = 0

\* a batch with an offline device, whose payload holds readings, next to an
\* online one
C9_Witness ==
    \E p \in Scrapers :
        /\ Finished(p) /\ obs[p].result # "failed"
        /\ \E id \in DOMAIN deviceStates :
             ~deviceStates[id].Online /\ deviceStates[id].Temperature # 0
        /\ \E id \in DOMAIN deviceStates :
             deviceStates[id].Online /\ SamplesOf(p, id, SensorNames) # {}

\* C10: a Collect whose refresh listed the devices D and fetched the states
\* of the subset S sends up 1 and then the samples of exactly the devices of
\* S, computed from the states fetched in this cycle, whatever was cached.
C10_BatchOfThisCycle ==
    \A p \in Scrapers : (Finished(p) /\ obs[p].result = "refreshed") =>
        /\ out[p] = <<UpSample(1)>> \o EmitDevices(loc[p].devs, obs[p].fetched)
        /\ EmittedIds(p) = DOMAIN obs[p].fetched
        /\ DOMAIN obs[p].fetched \subseteq Ids(loc[p].devs)
        /\ \A id \in DOMAIN obs[p].fetched :
             Cardinality(SamplesOf(p, id, {"yolink_device_online"})) = 1

\* two devices listed, one fetched; the other one, whose fetch failed, had a
\* state in the cache before, and the Collect before this one had failed
C10_Witness ==
    \E p \in Scrapers :
        /\ Finished(p) /\ obs[p].result = "refreshed" /\ prevFailed
        /\ Len(loc[p].devs) = 2
        /\ Cardinality(DOMAIN obs[p].fetched) = 1
        /\ \E id \in Ids(loc[p].devs) \ DOMAIN obs[p].fetched :
             id \in DOMAIN obs[p].pre[3]

\* the pcs at which a scraper is about to run a step of the API client
ClientPcs == {"getDevices", "listRequest", "stateLoop", "stateRequest"}
RequestPcs == {"listRequest", "stateRequest"}
FailedExchanges(p) ==
    { i \in 1..Len(obs[p].made) : obs[p].made[i].k = "token" /\ ~obs[p].made[i].ok }

\* C11: an error of the session check anywhere in a refresh cycle, in the
\* device-list call or in a state fetch, aborts the cycle: refreshData
\* returns the error, the Collect sends up 0 alone, and the device list is
\* the one held before.
C11_AuthErrorAbortsRefresh ==
    \A p \in Scrapers : obs[p].authErr =>
        /\ pc[p] \in {"refreshFailed", "unlock"}
        /\ devices = obs[p].pre[2]
        /\ Finished(p) => (obs[p].result = "failed" /\ out[p] = <<UpSample(0)>>)

C13_GrantByRefreshToken ==
    \A p \in Scrapers : obs[p].ens.checked =>
        /\ \A i \in 1..Len(obs[p].made) :
             /\ obs[p].made[i].k = "token"
             /\ obs[p].made[i].grant = IF obs[p].ens.hadRefresh
                                       THEN "refresh_token"
                                       ELSE "client_credentials"
        /\ (~obs[p].ens.had /\ ~obs[p].ens.hadRefresh) =>
             (Len(obs[p].made) = 1 /\ obs[p].made[1].grant = "client_credentials")

\* an expired session with a refresh token held is renewed by the refresh grant
C13_Witness ==
    \E p \in Scrapers :
        /\ obs[p].ens.checked /\ obs[p].ens.had /\ obs[p].ens.hadRefresh
        /\ Len(obs[p].made) = 1 /\ obs[p].made[1].grant = "refresh_token"
        /\ obs[p].made[1].ok

\* C14: when GetDevices or GetDeviceState is about to send its request, the
\* stored expiry is later than the current instant.
C14_ExpiryAheadAtRequest ==
    \A p \in Scrapers : pc[p] \in RequestPcs => tokenExpiry > now

\* C15: a failed exchange is the only exchange of its session check, and the
\* client call it belongs to returns the error without sending its request:
\* GetDevices makes refreshData fail, GetDeviceState leaves its device
\* without a state.
C15_NoRetryNoRequest ==
    \A p \in Scrapers : FailedExchanges(p) # {} =>
        /\ Len(obs[p].made) = 1
        /\ pc[p] \notin RequestPcs
        /\ obs[p].made[1].dev = "" => pc[p] = "refreshFailed"
        /\ obs[p].made[1].dev # "" =>
             /\ pc[p] = "stateLoop"
             /\ obs[p].made[1].dev \notin DOMAIN obs[p].fetched
             /\ obs[p].made[1].dev = loc[p].devs[loc[p].idx - 1].DeviceID

\* the refresh grant made for a state fetch has failed
C15_Witness ==
    \E p \in Scrapers :
        /\ FailedExchanges(p) = {1}
        /\ obs[p].made[1].grant = "refresh_token" /\ obs[p].made[1].dev # ""

\* C16: the up sample of a Collect is 1 exactly when the most recent refresh
\* attempt so far succeeded; a Collect served from the cache comes after a
\* successful attempt.
C16_UpTellsLastAttempt ==
    \A p \in Scrapers :
        /\ Finished(p) => (out[p][1].value = 1 <=> lastAttempt = "ok")
        /\ obs[p].result = "fresh" => lastAttempt = "ok"

\* a Collect served from the cache has sent up 1
C16_Witness ==
    \E p \in Scrapers :
        /\ Finished(p) /\ obs[p].result = "fresh" /\ out[p][1] = UpSample(1)
        /\ lastAttempt = "ok" /\ obs[p].age > 0

\* C17: the list GetDevices returns holds the devices of the response with
\* type THSensor and model YS8007-UC, all of them and in the order of the
\* response; no other device is ever in the cached list.
IsTargetSensor(d) == d.Type = "THSensor" /\ d.ModelName = "YS8007-UC"
Kept(resp) == { i \in 1..Len(resp) : IsTargetSensor(resp[i]) }

C17_OnlyTargetSensorsInOrder ==
    /\ \A i \in 1..Len(devices) : IsTargetSensor(devices[i])
    /\ \A p \in Scrapers : obs[p].resp # <<>> =>
         /\ Len(loc[p].devs) = Cardinality(Kept(obs[p].resp))
         /\ \A i \in Kept(obs[p].resp) :
              loc[p].devs[Cardinality({ j \in Kept(obs[p].resp) : j <= i })]
                = obs[p].resp[i]

\* a response with a hub between two sensors has been filtered
C17_Witness ==
    \E p \in Scrapers :
        /\ pc[p] = "clearStates"
        /\ obs[p].resp = <<DevA, DevHub, DevB>>
        /\ devices = <<DevA, DevB>>

\* C18: every step of the API client, with its requests and its changes of
\* the session, is taken by the scraper that holds the mutex, while no other
\* scraper is in the body of Collect; the session changes only in such a
\* step.
StepOf(p) == pc'[p] # pc[p] \/ loc'[p] # loc[p] \/ obs'[p] # obs[p]

C18_ClientOnlyUnderLock ==
    [][ /\ \A p \in Scrapers : (pc[p] \in ClientPcs /\ StepOf(p)) =>
             /\ mutex = p /\ mutex' = p
             /\ \A q \in Other(p) : ~InBody(q)
        /\ session' # session =>
             \E p \in Scrapers :
                 /\ pc[p] \in {"getDevices", "stateLoop"} /\ StepOf(p)
                 /\ mutex = p /\ obs'[p].ens.exchanged ]_vars

\* the lock holder has renewed the session while the other scraper waits
C18_Witness ==
    \E p \in Scrapers : \E q \in Other(p) :
        /\ pc[p] = "listRequest" /\ mutex = p /\ pc[q] = "lock"
        /\ obs[p].ens.exchanged /\ accessToken = "at" /\ obs[p].ens.had

\* C19: a scraper that is not in Collect does not hold the mutex; a Collect
\* returns only from its end, with its up sample sent, and unlocks the mutex
\* as it returns, whichever way the refresh went; and, with every request
\* returning and the lock granted fairly, no scraper stays for ever in a
\* Collect, waiting for the lock or holding it.
C19_LockReleasedCollectReturns ==
    /\ [](\A p \in Scrapers : ~InBody(p) => mutex # p)
    /\ [][\A p \in Scrapers : (pc[p] # "idle" /\ pc'[p] = "idle") =>
            (Finished(p) /\ UpPositions(p) # {} /\ mutex = p /\ mutex' = NoOne)]_vars
    /\ \A p \in Scrapers : []<>(pc[p] = "idle")

\* a Collect whose refresh failed is about to return while the other
\* scraper waits for the lock
C19_Witness ==
    \E p \in Scrapers : \E q \in Other(p) :
        /\ Finished(p) /\ obs[p].result = "failed" /\ out[p] = <<UpSample(0)>>
        /\ mutex = p /\ pc[q] = "lock"

\* C20: a refresh calls GetDevices once and first; if that succeeds it calls
\* GetDeviceState once for each device of the returned list, in list order,
\* and for no other device, whether or not earlier fetches failed.
RECURSIVE StateCalls(_)
StateCalls(devs) ==
    IF devs = <<>> THEN <<>>
    ELSE <<Entry("GetDeviceState", Head(devs).DeviceID, "", TRUE)>>
         \o StateCalls(Tail(devs))
ExpectedCalls(p) == <<Entry("GetDevices", "", "", TRUE)>> \o StateCalls(loc[p].devs)

C20_OneListCallThenOnePerDevice ==
    \A p \in Scrapers :
        /\ Len(obs[p].calls) <= Len(ExpectedCalls(p))
        /\ \A i \in 1..Len(obs[p].calls) : obs[p].calls[i] = ExpectedCalls(p)[i]
        /\ Len(obs[p].calls) > 1 => obs[p].resp # <<>>
        /\ pc[p] = "refreshed" => obs[p].calls = ExpectedCalls(p)
        /\ obs[p].result = "failed" => Len(obs[p].calls) = 1
        /\ pc[p] = "stateRequest" =>
             obs[p].calls[Len(obs[p].calls)].dev = loc[p].devs[loc[p].idx].DeviceID

\* the fetch of the first of two devices failed and the second was fetched
C20_Witness ==
    \E p \in Scrapers :
        /\ pc[p] = "refreshed" /\ Len(obs[p].calls) = 3
        /\ DOMAIN obs[p].fetched = {loc[p].devs[2].DeviceID}

\* C21: in a batch, a cached device has its last-updated sample exactly when
\* its report stamp parses, online or not; a stamp that does not parse takes
\* away that sample alone: the device keeps its online sample and, when
\* online, its three readings, and the number of samples of every device
\* follows from its own state.
StampName == {"yolink_last_updated_timestamp"}
OnlineName == {"yolink_device_online"}

C21_StampSampleIffParsed ==
    \A p \in Scrapers : (Finished(p) /\ obs[p].result # "failed") =>
        \A i \in 1..Len(devices) :
            LET id == devices[i].DeviceID
            IN  id \in DOMAIN deviceStates =>
                LET st == deviceStates[id]
                    parses == ParseReportAt(st.ReportAt).ok
                IN  /\ SamplesOf(p, id, StampName) # {} <=> parses
                    /\ Cardinality(SamplesOf(p, id, OnlineName)) = 1
                    /\ \A n \in SensorNames :
                         Cardinality(SamplesOf(p, id, {n})) = IF st.Online THEN 1 ELSE 0
                    /\ Cardinality(SamplesOf(p, id, StampName \cup OnlineName \cup SensorNames))
                         = 1 + (IF parses THEN 1 ELSE 0) + (IF st.Online THEN 3 ELSE 0)

\* a batch with an online device whose stamp does not parse, sent with its
\* readings and without the stamp sample, next to an offline device with its
\* stamp sample
C21_Witness ==
    \E p \in Scrapers :
        /\ Finished(p) /\ obs[p].result # "failed"
        /\ \E id \in DOMAIN deviceStates :
             /\ deviceStates[id] = Payload(TRUE, BadStamp)
             /\ SamplesOf(p, id, StampName) = {}
             /\ SamplesOf(p, id, SensorNames) # {}
        /\ \E id \in DOMAIN deviceStates :
             /\ deviceStates[id] = Payload(FALSE, GoodStamp)
             /\ SamplesOf(p, id, StampName) # {}

\* C22: a Collect that sends a device sample either refreshed the cache
\* itself, and then sends only devices whose state it fetched, or found at
\* its staleness check a cache no older than the interval; a Collect that
\* found the cache stale and could not refresh it sends no device sample.
C22_NoSamplesFromStaleCache ==
    \A p \in Scrapers : Finished(p) =>
        /\ DevicePositions(p) # {} =>
             \/ obs[p].result = "refreshed" /\ EmittedIds(p) \subseteq DOMAIN obs[p].fetched
             \/ obs[p].result = "fresh" /\ obs[p].age <= Interval
        /\ (obs[p].age > Interval /\ obs[p].result # "refreshed") => DevicePositions(p) = {}

\* a cache with device states, refreshed earlier and now older than the
\* interval, could not be refreshed: the Collect sends no device sample
C22_Witness ==
    \E p \in Scrapers :
        /\ Finished(p) /\ obs[p].result = "failed" /\ obs[p].age > Interval
        /\ lastScrape # ZeroTime /\ DOMAIN deviceStates # {}
        /\ DevicePositions(p) = {}

\* C23: while the latest exchange is a failed refresh grant, the session is
\* as that exchange found it, expired and with its refresh token; every
\* session check makes the refresh grant again, and it alone; and a Collect
\* that ends in that condition has sent up 0 and nothing else.
C23_NoUpOneWhileRefreshGrantFails ==
    /\ failing => (refreshToken # "" /\ NeedsToken)
    /\ \A p \in Scrapers :
         /\ (failing /\ obs[p].ens.checked) =>
              (obs[p].ens.hadRefresh /\ obs[p].made = <<Entry("token",
                   obs[p].made[1].dev, "refresh_token", FALSE)>>)
         /\ (failing /\ Finished(p)) => out[p] = <<UpSample(0)>>

====
